---- MODULE Spec2Model ----
(***************************************************************************)
(* Model of mmcls/evaluation/metrics/multi_label.py: the static            *)
(* calculate() methods of MultiLabelMetric, AveragePrecision and           *)
(* RetrievalAveragePrecision, and the MultiLabelMetric facade              *)
(* (process / compute_metrics).                                            *)
(*                                                                         *)
(* Real numbers are exact rationals <<n, d>> in lowest terms with d > 0.   *)
(* Python's None is the string "None".  A call that raises is recorded by  *)
(* the name of the exception in the field `raised` ("None": it returned).  *)
(***************************************************************************)
EXTENDS Integers, Sequences, FiniteSets, TLC

VARIABLES
    pred,     \* the prediction argument of the static call (scores / ranked ids)
    target,   \* the target argument of the static call
    call,     \* the last static call: its arguments, locals and return value
    self,     \* the MultiLabelMetric instance: thr, topk, average, items, results
    out       \* what the last method called on `self` returned

vars == <<pred, target, call, self, out>>

\* None where the other values are strings (average, an exception's name)
None == "None"
\* None where the other values are numbers: an optional number is Nil or,
\* for a rational, the pair itself and, for an integer k, <<k>>
Nil == <<>>
Some(k) == <<k>>
Get(opt) == opt[1]

(***************************************************************************)
(* Bounds of the model.                                                    *)
(***************************************************************************)
\* A matrix handed to a static calculate has at most MaxRows rows (samples),
\* at most MaxClasses columns (classes) and at most MaxCells cells.  The
\* docstring examples (5 x 4 and 4 x 4) are inputs as well.
MaxRows == 3
MaxClasses == 2
MaxCells == 4
\* A MultiLabelMetric instance accumulates at most MaxResults samples, of
\* at most MaxClasses classes and MaxCells cells in all.
MaxResults == 2
\* A ranked list handed to RetrievalAveragePrecision.calculate has at most
\* MaxRanked entries over the gallery ids 0..MaxId, repeated ids included
\* (MaxId + 1 ids are enough for MaxRanked entries to be all different), and
\* max_predictions is at most MaxRanked + 1 (or the default).  The docstring
\* example (the ids 0..99) is an input as well.
MaxRanked == 3
MaxId == 2

(***************************************************************************)
(* Exact rational arithmetic.                                              *)
(***************************************************************************)
Abs(n) == IF n < 0 THEN -n ELSE n

RECURSIVE GCD(_, _)
GCD(a, b) == IF b = 0 THEN a ELSE GCD(b, a % b)

Rat(n, d) ==
    LET g == GCD(Abs(n), Abs(d))
        s == IF d < 0 THEN -1 ELSE 1
    IN  IF n = 0 THEN <<0, 1>> ELSE <<s * (n \div g), s * (d \div g)>>

RZero == <<0, 1>>
ROne == <<1, 1>>
RInt(n) == <<n, 1>>
RAdd(a, b) == Rat(a[1] * b[2] + b[1] * a[2], a[2] * b[2])
RSub(a, b) == Rat(a[1] * b[2] - b[1] * a[2], a[2] * b[2])
RMul(a, b) == Rat(a[1] * b[1], a[2] * b[2])
RDiv(a, b) == Rat(a[1] * b[2], a[2] * b[1])
RLeq(a, b) == a[1] * b[2] <= b[1] * a[2]
RLt(a, b) == a[1] * b[2] < b[1] * a[2]
RGeq(a, b) == RLeq(b, a)

RECURSIVE RSum(_)
RSum(s) == IF s = <<>> THEN RZero ELSE RAdd(Head(s), RSum(Tail(s)))

\* torch.Tensor.mean(0) of a vector
RMean(s) == RDiv(RSum(s), RInt(Len(s)))

RECURSIVE ISum(_)
ISum(s) == IF s = <<>> THEN 0 ELSE Head(s) + ISum(Tail(s))

Min(a, b) == IF a <= b THEN a ELSE b

(***************************************************************************)
(* Input domains.                                                          *)
(***************************************************************************)
\* scores a prediction cell may hold
ScoreVals == {Rat(0, 1), Rat(1, 2), Rat(1, 1)}
\* thresholds a caller may pass (None: not supplied)
ThrVals == {Nil, Rat(0, 1), Rat(1, 2), Rat(1, 1)}
AverageVals == {"macro", "micro", None}

Shapes == {s \in (1..MaxRows) \X (1..MaxClasses) : s[1] * s[2] <= MaxCells}
Matrices(s, vals) == [1..s[1] -> [1..s[2] -> vals]]

NumRows(m) == Len(m)
NumCols(m) == Len(m[1])

ColumnOrders(c) == {p \in [1..c -> 1..c] : \A i, j \in 1..c : p[i] = p[j] => i = j}

\* The docstring example of MultiLabelMetric (one-hot labels).
DocPred ==
    LET o == ROne
        z == RZero
    IN  << <<o, o, z, z>>, <<o, o, z, z>>, <<z, z, o, z>>,
           <<z, o, z, z>>, <<z, o, z, z>> >>
DocTarget ==
    << <<1, 1, 0, 0>>, <<0, 0, 1, 0>>, <<1, 1, 1, 0>>,
       <<1, 0, 0, 0>>, <<1, 0, 0, 0>> >>

(***************************************************************************)
(* _precision_recall_f1_support(pred_positive, gt_positive, average)       *)
(* lives in single_label.py; it is modelled from the specification of the  *)
(* Confusion Statistics Engine.                                            *)
(***************************************************************************)
Hundred == RInt(100)

CountCells(cells) == Cardinality(cells)

\* prf_from_counts with the F1 of the percentages scaled by 100 once more
prf_from_counts_rescaled(tp, fp, fn) ==
    LET p == IF tp + fp > 0 THEN Rat(100 * tp, tp + fp) ELSE RZero
        r == IF tp + fn > 0 THEN Rat(100 * tp, tp + fn) ELSE RZero
        f == IF RLt(RZero, RAdd(p, r))
             THEN RDiv(RMul(RInt(2), RMul(p, r)), RAdd(p, r))
             ELSE RZero
    IN  [precision |-> p, recall |-> r,
         f1 |-> RMul(f, Hundred), support |-> tp + fn]

\* one precision / recall / f1 triple (in percent) from pooled counts
prf_from_counts(tp, fp, fn) ==
    LET p == IF tp + fp > 0 THEN Rat(tp, tp + fp) ELSE RZero
        r == IF tp + fn > 0 THEN Rat(tp, tp + fn) ELSE RZero
        f == IF RLt(RZero, RAdd(p, r))
             THEN RDiv(RMul(RInt(2), RMul(p, r)), RAdd(p, r))
             ELSE RZero
    IN  [precision |-> RMul(p, Hundred), recall |-> RMul(r, Hundred),
         f1 |-> RMul(f, Hundred), support |-> tp + fn]

\* the confusion tuple and the ratios of class c
class_stats(pred_positive, gt_positive, c) ==
    LET rows == 1..NumRows(pred_positive)
        tp == CountCells({n \in rows :
                  pred_positive[n][c] = 1 /\ gt_positive[n][c] = 1})
        fp == CountCells({n \in rows :
                  pred_positive[n][c] = 1 /\ gt_positive[n][c] = 0})
        fn == CountCells({n \in rows :
                  pred_positive[n][c] = 0 /\ gt_positive[n][c] = 1})
    IN  [tp |-> tp, fp |-> fp, fn |-> fn] @@ prf_from_counts(tp, fp, fn)

RECURSIVE all_class_stats(_, _, _)
all_class_stats(pred_positive, gt_positive, c) ==
    IF c = 0 THEN <<>>
    ELSE Append(all_class_stats(pred_positive, gt_positive, c - 1),
                class_stats(pred_positive, gt_positive, c))

\* averaged pooling the false positives and the false negatives crosswise
averaged_micro_swapped(cls, average) ==
    LET C == Len(cls)
        pooled == prf_from_counts(ISum([c \in 1..C |-> cls[c].tp]),
                                  ISum([c \in 1..C |-> cls[c].fn]),
                                  ISum([c \in 1..C |-> cls[c].fp]))
    IN  IF average = "micro"
        THEN <<pooled.precision, pooled.recall, pooled.f1, pooled.support>>
        ELSE IF average = "macro"
        THEN <<RMean([c \in 1..C |-> cls[c].precision]),
               RMean([c \in 1..C |-> cls[c].recall]),
               RMean([c \in 1..C |-> cls[c].f1]),
               ISum([c \in 1..C |-> cls[c].support])>>
        ELSE <<[c \in 1..C |-> cls[c].precision],
               [c \in 1..C |-> cls[c].recall],
               [c \in 1..C |-> cls[c].f1],
               [c \in 1..C |-> cls[c].support]>>

averaged(cls, average) ==
    LET C == Len(cls)
        pooled == prf_from_counts(ISum([c \in 1..C |-> cls[c].tp]),
                                  ISum([c \in 1..C |-> cls[c].fp]),
                                  ISum([c \in 1..C |-> cls[c].fn]))
    IN  IF average = "micro"
        THEN <<pooled.precision, pooled.recall, pooled.f1, pooled.support>>
        ELSE IF average = "macro"
        THEN <<RMean([c \in 1..C |-> cls[c].precision]),
               RMean([c \in 1..C |-> cls[c].recall]),
               RMean([c \in 1..C |-> cls[c].f1]),
               ISum([c \in 1..C |-> cls[c].support])>>
        ELSE <<[c \in 1..C |-> cls[c].precision],
               [c \in 1..C |-> cls[c].recall],
               [c \in 1..C |-> cls[c].f1],
               [c \in 1..C |-> cls[c].support]>>

precision_recall_f1_support(pred_positive, gt_positive, average) ==
    averaged(all_class_stats(pred_positive, gt_positive,
                             NumCols(pred_positive)), average)

(***************************************************************************)
(* MultiLabelMetric.calculate                                              *)
(***************************************************************************)
\* threshold_pos_inds with the comparison turned round: (pred <= thr).long()
threshold_pos_inds_below(p, thr) ==
    [n \in 1..NumRows(p) |->
        [c \in 1..NumCols(p) |-> IF RLeq(p[n][c], thr) THEN 1 ELSE 0]]

\* threshold_pos_inds with a strict comparison: (pred > thr).long()
threshold_pos_inds_strict(p, thr) ==
    [n \in 1..NumRows(p) |->
        [c \in 1..NumCols(p) |-> IF RLt(thr, p[n][c]) THEN 1 ELSE 0]]

\* (pred >= thr).long()
threshold_pos_inds(p, thr) ==
    [n \in 1..NumRows(p) |->
        [c \in 1..NumCols(p) |-> IF RGeq(p[n][c], thr) THEN 1 ELSE 0]]

\* torch.topk leaves the order among equal scores to the implementation:
\* `tie` (a permutation of the columns) is the order it happens to prefer.
PosIn(tie, i) == CHOOSE q \in 1..Len(tie) : tie[q] = i

Precedes(row, tie, i, j) ==
    \/ RLt(row[j], row[i])
    \/ row[i] = row[j] /\ PosIn(tie, i) <= PosIn(tie, j)

RECURSIVE SortDescending(_, _, _)
SortDescending(row, tie, remaining) ==
    IF remaining = {} THEN <<>>
    ELSE LET first == CHOOSE i \in remaining :
                          \A j \in remaining : Precedes(row, tie, i, j)
         IN  <<first>> \o SortDescending(row, tie, remaining \ {first})

\* topk_indices taking the k smallest: pred.topk(topk, largest=False)
topk_indices_smallest(row, k, tie) ==
    LET sorted == SortDescending(row, tie, 1..Len(row))
    IN  SubSeq(sorted, Len(row) - k + 1, Len(row))

\* _, topk_indices = pred.topk(topk), one row
topk_indices(row, k, tie) ==
    SubSeq(SortDescending(row, tie, 1..Len(row)), 1, k)

\* torch.zeros_like(pred).scatter_(1, topk_indices, 1).long()
topk_pos_inds(p, k, ties) ==
    [n \in 1..NumRows(p) |->
        LET idx == topk_indices(p[n], k, ties[n])
        IN  [c \in 1..NumCols(p) |->
                IF \E q \in 1..Len(idx) : idx[q] = c THEN 1 ELSE 0]]

Shape(m) == <<NumRows(m), NumCols(m)>>

Raise(fn, exc) == [fn |-> fn, raised |-> exc]

\* calculate handing the target and the mask over in the wrong order
calculate_swapped(p, t, average, thr, topk, ties) ==
    LET fn == "MultiLabelMetric.calculate"
        thr1 == IF thr = Nil /\ topk = Nil THEN Rat(1, 2) ELSE thr
    IN  IF Shape(p) # Shape(t) \/ (thr1 = Nil /\ Get(topk) > NumCols(p))
        THEN Raise(fn, "AssertionError")
        ELSE LET pos_inds == IF thr1 # Nil
                             THEN threshold_pos_inds(p, thr1)
                             ELSE topk_pos_inds(p, Get(topk), ties)
             IN  [fn |-> fn, raised |-> None, pos_inds |-> pos_inds,
                  value |-> precision_recall_f1_support(t, pos_inds, average)]

calculate(p, t, average, thr, topk, ties) ==
    LET fn == "MultiLabelMetric.calculate"
        thr1 == IF thr = Nil /\ topk = Nil THEN Rat(1, 2) ELSE thr
    IN  IF average \notin {"micro", "macro", None}
        THEN Raise(fn, "AssertionError")
        ELSE IF Shape(p) # Shape(t)
        THEN Raise(fn, "AssertionError")
        ELSE IF thr1 = Nil /\ Get(topk) > NumCols(p)
        THEN Raise(fn, "RuntimeError")
        ELSE LET pos_inds == IF thr1 # Nil
                             THEN threshold_pos_inds(p, thr1)
                             ELSE topk_pos_inds(p, Get(topk), ties)
             IN  [fn |-> fn, raised |-> None, pos_inds |-> pos_inds,
                  value |-> precision_recall_f1_support(pos_inds, t, average)]

(***************************************************************************)
(* Specification Spec: MultiLabelMetric.calculate as a static call on      *)
(* every pair of matrices of one shape.                                    *)
(***************************************************************************)
NoCall == [fn |-> None]
NoSelf == [cls |-> None]

TopkVals(p) == {Nil} \cup {Some(k) : k \in 1..(NumCols(p) + 1)}

\* The orders torch.topk can return for a row: each order the sort can
\* produce, named once (by the tie order equal to it).
RowTieVals(row) ==
    {o \in ColumnOrders(Len(row)) : SortDescending(row, o, 1..Len(row)) = o}

\* The sets of k columns topk(k) can select from a row: no column left out
\* scores higher than a selected one.
TopkSelections(row, k) ==
    {S \in SUBSET (1..Len(row)) :
        /\ Cardinality(S) = k
        /\ \A c \in S, d \in (1..Len(row)) \ S : RLeq(row[d], row[c])}

\* the order that puts the columns of S first among equal scores
OrderPreferring(S, C) ==
    SelectSeq([c \in 1..C |-> c], LAMBDA c : c \in S)
        \o SelectSeq([c \in 1..C |-> c], LAMBDA c : c \notin S)

\* The orders that matter to topk(k) on a row: one order for each set of k
\* columns the sort can put first.
RowTopkTieVals(row, k) ==
    {OrderPreferring(S, Len(row)) : S \in TopkSelections(row, k)}

\* One order per row, chosen independently: every combination of the
\* selections the rows' sorts can make.
RECURSIVE RowsTieVals(_, _, _)
RowsTieVals(p, n, k) ==
    IF n = 0 THEN {<<>>}
    ELSE {Append(ties, o) : ties \in RowsTieVals(p, n - 1, k),
                            o \in RowTopkTieVals(p[n], k)}

TieVals(p, thr, topk) ==
    IF thr # Nil \/ topk = Nil \/ Get(topk) > NumCols(p)
    THEN {[n \in 1..NumRows(p) |-> [c \in 1..NumCols(p) |-> c]]}
    ELSE RowsTieVals(p, NumRows(p), Get(topk))

Init ==
    /\ \/ \E s \in Shapes :
              /\ pred \in Matrices(s, ScoreVals)
              /\ target \in Matrices(s, {0, 1})
       \/ pred = DocPred /\ target = DocTarget
    /\ call = NoCall
    /\ self = NoSelf
    /\ out = NoCall

MLCalculate(average, thr, topk, ties) ==
    /\ call' = calculate(pred, target, average, thr, topk, ties)
                   @@ [average |-> average, thr |-> thr, topk |-> topk]
    /\ UNCHANGED <<pred, target, self, out>>

\* One behaviour is one static call on the inputs Init drew.
Next ==
    /\ call = NoCall
    /\ \E average \in AverageVals, thr \in ThrVals, topk \in TopkVals(pred) :
          \E ties \in TieVals(pred, thr, topk) :
              MLCalculate(average, thr, topk, ties)

Spec == Init /\ [][Next]_vars

(***************************************************************************)
(* The MultiLabelMetric instance: __init__, process, compute_metrics.      *)
(***************************************************************************)
\* the names `items` may hold
SupportedItems == {"precision", "recall", "f1-score", "support"}

MultiLabelMetric_init(thr, topk, average, items) ==
    IF \E i \in 1..Len(items) : items[i] \notin SupportedItems
    THEN Raise("MultiLabelMetric.__init__", "AssertionError")
    ELSE [cls |-> "MultiLabelMetric",
          thr |-> IF thr = Nil /\ topk = Nil THEN Rat(1, 2) ELSE thr,
          topk |-> topk, average |-> average, items |-> items,
          results |-> <<>>]

\* LabelData.label_to_onehot(label, num_classes): onehot[label] = 1, the
\* class ids counted from 0
label_to_onehot(label, num_classes) ==
    [c \in 1..num_classes |-> IF (c - 1) \in label THEN 1 ELSE 0]

\* the result record process() builds from one data sample
process_result(data_sample) ==
    LET pred_score == data_sample.pred_label.score
        num_classes == Len(pred_score)
        gt_label == data_sample.gt_label
    IN  [pred_score |-> pred_score,
         gt_score |-> IF "score" \in DOMAIN gt_label
                      THEN gt_label.score
                      ELSE label_to_onehot(gt_label.label, num_classes)]

process(obj, data_samples) ==
    [obj EXCEPT !.results =
        @ \o [i \in 1..Len(data_samples) |-> process_result(data_samples[i])]]

\* bool(self.thr): None and 0.0 are false
Truthy(thr) == thr # Nil /\ thr # RZero

\* f'{x:.2f}' of a non-negative number: two decimals, round half to even
Format2f(x) ==
    LET num == 100 * x[1]
        q == num \div x[2]
        rem == num % x[2]
        h == IF 2 * rem > x[2] THEN q + 1
             ELSE IF 2 * rem < x[2] THEN q
             ELSE IF q % 2 = 0 THEN q ELSE q + 1
    IN  ToString(h \div 100) \o "." \o ToString((h % 100) \div 10)
            \o ToString(h % 10)

\* f'{k}' of an optional integer
FormatOpt(k) == IF k = Nil THEN "None" ELSE ToString(Get(k))

\* pack_results: the position in metric_res of each item
ItemIndex(item) ==
    CASE item = "precision" -> 1
      [] item = "recall" -> 2
      [] item = "f1-score" -> 3
      [] item = "support" -> 4

AllItems == {"precision", "recall", "f1-score", "support"}

decision_suffix(obj) ==
    IF Truthy(obj.thr)
    THEN IF obj.thr = Rat(1, 2) THEN "" ELSE "_thr-" \o Format2f(obj.thr)
    ELSE "_top" \o FormatOpt(obj.topk)

average_suffix(obj) ==
    IF obj.average = None THEN "_classwise"
    ELSE IF obj.average = "macro" THEN ""
    ELSE "_" \o obj.average

metric_key(obj, item) == item \o decision_suffix(obj) \o average_suffix(obj)

compute_metrics(obj, results, ties) ==
    LET fn == "MultiLabelMetric.compute_metrics"
    IN  IF results = <<>>
        THEN Raise(fn, "RuntimeError")
        ELSE
        LET tgt == [i \in 1..Len(results) |-> results[i].gt_score]
            prd == [i \in 1..Len(results) |-> results[i].pred_score]
            metric_res == calculate(prd, tgt, obj.average, obj.thr, obj.topk,
                                    ties)
            packed == {item \in AllItems :
                          \E i \in 1..Len(obj.items) : obj.items[i] = item}
            keys == {metric_key(obj, item) : item \in packed}
        IN  IF metric_res.raised # None
            THEN Raise(fn, metric_res.raised)
            ELSE [fn |-> fn, raised |-> None,
                  value |-> [k \in keys |->
                      LET item == CHOOSE it \in packed :
                                      metric_key(obj, it) = k
                      IN  metric_res.value[ItemIndex(item)]]]

(***************************************************************************)
(* Specification SpecFacade: a MultiLabelMetric instance built with any    *)
(* arguments, fed samples of one width, and asked for its metrics.         *)
(***************************************************************************)
FacadeTopkVals == {Nil, Some(1)}
\* the default, a selection, and a tuple with a name that is not supported
ItemVals ==
    {<<"precision", "recall", "f1-score">>, <<"recall", "support">>,
     <<"precision", "accuracy">>}

\* A data sample of width c: the ground truth as scores or as a label set.
DataSamples(c) ==
    {[pred_label |-> [score |-> ps], gt_label |-> gt] :
        ps \in [1..c -> ScoreVals],
        gt \in {[score |-> g] : g \in [1..c -> {0, 1}]}
                \cup {[label |-> l] : l \in SUBSET (0..(c - 1))}}

StackedPred(obj) == [i \in 1..Len(obj.results) |-> obj.results[i].pred_score]
StackedTarget(obj) == [i \in 1..Len(obj.results) |-> obj.results[i].gt_score]

FacadeInit ==
    /\ pred = Nil
    /\ target = Nil
    /\ call = NoCall
    /\ \E thr \in ThrVals, topk \in FacadeTopkVals,
          average \in AverageVals, items \in ItemVals :
           self = MultiLabelMetric_init(thr, topk, average, items)
    /\ out = NoCall

\* process(data_batch, data_samples) with one data sample (a batch of several
\* is that many calls); all samples of an instance have one width.
Process(data_samples) ==
    /\ self' = process(self, data_samples)
    /\ out' = NoCall
    /\ UNCHANGED <<pred, target, call>>

\* compute_metrics(results) on the instance's own results
Compute(ties) ==
    /\ out' = compute_metrics(self, self.results, ties)
    /\ UNCHANGED <<pred, target, call, self>>

SampleWidths ==
    IF self.results = <<>> THEN 1..MaxClasses
    ELSE {Len(self.results[1].pred_score)}

\* the constructor returned an instance (it did not raise)
Constructed(obj) == "cls" \in DOMAIN obj

FacadeNext ==
    \/ /\ Constructed(self)
       /\ \E c \in SampleWidths :
              /\ Len(self.results) < MaxResults
              /\ (Len(self.results) + 1) * c <= MaxCells
              /\ \E ds \in DataSamples(c) : Process(<<ds>>)
    \/ /\ Constructed(self)
       /\ self.results # <<>>
       /\ \E ties \in TieVals(StackedPred(self), self.thr, self.topk) :
              Compute(ties)
    \/ /\ Constructed(self)
       /\ self.results = <<>>
       /\ Compute(<<>>)

SpecFacade == FacadeInit /\ [][FacadeNext]_vars

(***************************************************************************)
(* _average_precision and AveragePrecision.calculate                       *)
(***************************************************************************)
\* torch.finfo(torch.float32).eps
eps == Rat(1, 8388608)

\* v[mask]: the entries of vector v where keep holds, in order
RECURSIVE MaskSelect(_, _)
MaskSelect(v, keep) ==
    IF v = <<>> THEN <<>>
    ELSE (IF Head(keep) THEN <<Head(v)>> ELSE <<>>)
             \o MaskSelect(Tail(v), Tail(keep))

\* torch.cumsum(v, 0)
cumsum(v) == [i \in 1..Len(v) |-> ISum(SubSeq(v, 1, i))]

RMax(a, b) == IF RLeq(a, b) THEN b ELSE a

\* _average_precision with the samples marked -1 kept, as negatives
average_precision_keep_ignored(p, t, tie) ==
    LET n1 == Len(p)
        sorted_pred_inds == SortDescending(p, [i \in 1..n1 |-> i], 1..n1)
        pos_inds == [i \in 1..n1 |->
                        IF t[sorted_pred_inds[i]] = 1 THEN 1 ELSE 0]
        tps == cumsum(pos_inds)
    IN  IF n1 = 0 THEN Raise("_average_precision", "IndexError")
        ELSE [raised |-> None, sorted_pred_inds |-> sorted_pred_inds,
              ap |-> RDiv(RSum([i \in 1..n1 |->
                                   IF pos_inds[i] = 1 THEN Rat(tps[i], i)
                                   ELSE RZero]),
                          RMax(RInt(tps[n1]), eps))]

\* _average_precision(pred, target) for one class; `tie` is the order
\* torch.argsort happens to give equal scores (an order of the kept samples).
average_precision(p, t, tie) ==
    LET valid_index == [n \in 1..Len(t) |-> t[n] > -1]
        pred1 == MaskSelect(p, valid_index)
        target1 == MaskSelect(t, valid_index)
        n1 == Len(pred1)
        sorted_pred_inds == SortDescending(pred1, tie, 1..n1)
        sorted_target == [i \in 1..n1 |-> target1[sorted_pred_inds[i]]]
        pos_inds == [i \in 1..n1 |-> sorted_target[i] = 1]
        tps == cumsum([i \in 1..n1 |-> IF pos_inds[i] THEN 1 ELSE 0])
        \* tps[-1] of an empty tensor raises IndexError
        total_pos == tps[n1]
        pred_pos_nums == [i \in 1..n1 |->
                             IF RLt(RInt(i), eps) THEN eps ELSE RInt(i)]
        tps1 == [i \in 1..n1 |-> IF pos_inds[i] THEN tps[i] ELSE 0]
        precision == [i \in 1..n1 |-> RDiv(RInt(tps1[i]), pred_pos_nums[i])]
    IN  IF Len(p) # Len(t) THEN Raise("_average_precision", "AssertionError")
        ELSE IF n1 = 0 THEN Raise("_average_precision", "IndexError")
        ELSE [raised |-> None, sorted_pred_inds |-> sorted_pred_inds,
              ap |-> RDiv(RSum(precision), RMax(RInt(total_pos), eps))]

Column(m, k) == [n \in 1..NumRows(m) |-> m[n][k]]

\* the exception the loop over the classes raises first, or None
FirstRaised(per_class) ==
    IF \A k \in 1..Len(per_class) : per_class[k].raised = None THEN None
    ELSE per_class[CHOOSE k \in 1..Len(per_class) :
             /\ per_class[k].raised # None
             /\ \A j \in 1..(k - 1) : per_class[j].raised = None].raised

AP_calculate(p, t, average, ties) ==
    LET fn == "AveragePrecision.calculate"
        num_classes == NumCols(p)
        per_class == [k \in 1..num_classes |->
                         average_precision(Column(p, k), Column(t, k), ties[k])]
        ap == [k \in 1..num_classes |-> per_class[k].ap]
    IN  IF average \notin {"macro", None} THEN Raise(fn, "AssertionError")
        ELSE IF Shape(p) # Shape(t) THEN Raise(fn, "AssertionError")
        ELSE IF FirstRaised(per_class) # None
        THEN Raise(fn, FirstRaised(per_class))
        ELSE [fn |-> fn, raised |-> None,
              sorted_pred_inds |->
                  [k \in 1..num_classes |-> per_class[k].sorted_pred_inds],
              value |-> IF average = "macro"
                        THEN RMul(RMean(ap), Hundred)
                        ELSE [k \in 1..num_classes |-> RMul(ap[k], Hundred)]]

(***************************************************************************)
(* Specification SpecAP: AveragePrecision.calculate as a static call on    *)
(* every score matrix and every target matrix over {-1, 0, 1} of one       *)
(* shape, and on the docstring example.                                    *)
(***************************************************************************)
Tenths(row) == [i \in 1..Len(row) |-> Rat(row[i], 10)]
DocAPPred ==
    << Tenths(<<9, 8, 3, 2>>), Tenths(<<1, 2, 2, 1>>),
       Tenths(<<7, 5, 9, 3>>), Tenths(<<8, 1, 1, 2>>) >>
DocAPTarget ==
    << <<1, 1, 0, 0>>, <<0, 1, 0, 0>>, <<0, 0, 1, 0>>, <<1, 0, 0, 0>> >>

APAverageVals == {"macro", None}

\* the orders argsort can return for the kept samples of column k
RECURSIVE APTieVals(_, _, _)
APTieVals(p, t, k) ==
    IF k = 0 THEN {<<>>}
    ELSE LET kept == MaskSelect(Column(p, k),
                         [n \in 1..NumRows(t) |-> t[n][k] > -1])
         IN  {Append(ties, o) : ties \in APTieVals(p, t, k - 1),
                                o \in RowTieVals(kept)}

APInit ==
    /\ \/ \E s \in Shapes :
              /\ pred \in Matrices(s, ScoreVals)
              /\ target \in Matrices(s, {-1, 0, 1})
       \/ pred = DocAPPred /\ target = DocAPTarget
    /\ call = NoCall
    /\ self = NoSelf
    /\ out = NoCall

APCalculate(average, ties) ==
    /\ call' = AP_calculate(pred, target, average, ties)
                   @@ [average |-> average]
    /\ UNCHANGED <<pred, target, self, out>>

\* One behaviour is one static call on the inputs APInit drew.
APNext ==
    /\ call = NoCall
    /\ \E average \in APAverageVals :
          \E ties \in APTieVals(pred, target, NumCols(pred)) :
              APCalculate(average, ties)

SpecAP == APInit /\ [][APNext]_vars

(***************************************************************************)
(* RetrievalAveragePrecision.calculate                                     *)
(***************************************************************************)
\* the default of max_predictions
DefaultMaxPredictions == 100

\* np.arange(predictions_num)[np.in1d(sorted_sim_indices, target)]: the
\* 0-indexed positions whose id is a target id, in order
positive_ranks(sorted_sim_indices, tgt) ==
    SelectSeq([q \in 1..Len(sorted_sim_indices) |-> q - 1],
              LAMBDA rank : sorted_sim_indices[rank + 1] \in tgt)

\* hit_precision counting the hit itself in the left precision
hit_precision_left_counts_hit(i, rank, option) ==
    IF option = "standard"
    THEN Rat(i + 1, rank + 1)
    ELSE LET left_precision == IF rank > 0 THEN Rat(i + 1, rank) ELSE ROne
             right_precision == Rat(i + 1, rank + 1)
         IN  RDiv(RAdd(left_precision, right_precision), RInt(2))

\* hit_precision with the position itself as the denominator
hit_precision_off_by_one(i, rank, option) ==
    IF rank = 0 THEN ROne ELSE Rat(i + 1, rank)

\* the term the loop adds for the i-th hit (0-indexed) at position rank
hit_precision(i, rank, option) ==
    IF option = "standard"
    THEN Rat(i + 1, rank + 1)
    ELSE LET left_precision == IF rank > 0 THEN Rat(i, rank) ELSE ROne
             right_precision == Rat(i + 1, rank + 1)
         IN  RDiv(RAdd(left_precision, right_precision), RInt(2))

\* truncate forgetting to cut the list
truncate_nothing(sorted_sim_indices, max_predictions) == sorted_sim_indices

\* the list the loop runs over: sorted_sim_indices[:max_predictions]
truncate(sorted_sim_indices, max_predictions) ==
    IF Len(sorted_sim_indices) > max_predictions
    THEN SubSeq(sorted_sim_indices, 1, max_predictions)
    ELSE sorted_sim_indices

\* num_expected_retrieved without the cap at max_predictions
num_expected_uncapped(tgt, max_predictions) == Cardinality(tgt)

\* num_expected_retrieved = min(target.shape[0], max_predictions)
num_expected_retrieved(tgt, max_predictions) ==
    Min(Cardinality(tgt), max_predictions)

retrieval_calculate(sorted_sim_indices, tgt, max_predictions, option) ==
    LET fn == "RetrievalAveragePrecision.calculate"
        ranks == positive_ranks(truncate(sorted_sim_indices, max_predictions),
                                tgt)
        ap == RSum([q \in 1..Len(ranks) |->
                       hit_precision(q - 1, ranks[q], option)])
        expected == num_expected_retrieved(tgt, max_predictions)
    IN  IF option \notin {"standard", "average"}
        THEN Raise(fn, "AssertionError")
        ELSE IF expected = 0
        THEN Raise(fn, "ZeroDivisionError")
        ELSE [fn |-> fn, raised |-> None,
              value |-> RMul(RDiv(ap, RInt(expected)), Hundred)]

(***************************************************************************)
(* Specification SpecRetrieval: RetrievalAveragePrecision.calculate as a   *)
(* static call on every list of gallery ids, repeated ids included, and    *)
(* every set of target ids, and on the docstring example.                  *)
(***************************************************************************)
GalleryIds == 0..MaxId

\* sorted_sim_indices: any 1-D list of gallery ids; an id may occur more than
\* once, and np.in1d then counts each of its positions
RankedLists == UNION {[1..n -> GalleryIds] : n \in 0..MaxRanked}

\* the docstring example: index, label, and the five ids of label that are
\* gallery ids
DocIndex == [q \in 1..100 |-> q - 1]
DocLabel == {0, 3, 6, 8, 35, 101, 102, 103, 104, 105, 201, 202, 203, 204, 205}
DocRelevant == {0, 3, 6, 8, 35}

OptionVals == {"standard", "average"}

RetrievalInit ==
    /\ \/ pred \in RankedLists /\ target \in SUBSET GalleryIds
       \/ pred = DocIndex /\ target \in {DocLabel, DocRelevant}
    /\ call = NoCall
    /\ self = NoSelf
    /\ out = NoCall

RetrievalCalculate(max_predictions, option) ==
    /\ call' = retrieval_calculate(pred, target, max_predictions, option)
                   @@ [max_predictions |-> max_predictions, option |-> option]
    /\ UNCHANGED <<pred, target, self, out>>

\* One behaviour is one static call on the inputs RetrievalInit drew.
RetrievalNext ==
    /\ call = NoCall
    /\ \E max_predictions \in (1..(MaxRanked + 1)) \cup {DefaultMaxPredictions},
          option \in OptionVals :
           RetrievalCalculate(max_predictions, option)

SpecRetrieval == RetrievalInit /\ [][RetrievalNext]_vars

(***************************************************************************)
(* Claims about MultiLabelMetric.calculate (specification Spec).           *)
(***************************************************************************)
Returned == call.fn = "MultiLabelMetric.calculate" /\ call.raised = None
IsDocExample == pred = DocPred /\ target = DocTarget
DefaultCall == call.thr = Nil /\ call.topk = Nil

\* The claim's arithmetic, written from its text: counts as sums over the
\* samples, ratios with the zero default, then the averaging mode.
C1_Count(mask, tgt, c, d, g) ==
    ISum([n \in 1..Len(mask) |->
             IF mask[n][c] = d /\ tgt[n][c] = g THEN 1 ELSE 0])
C1_Ratio(num, den) == IF den = 0 THEN RZero ELSE Rat(100 * num, den)
C1_F1(p, r) ==
    IF RAdd(p, r) = RZero THEN RZero
    ELSE RDiv(RMul(RInt(2), RMul(p, r)), RAdd(p, r))
C1_Expected(mask, tgt, average) ==
    LET C == Len(mask[1])
        tp == [c \in 1..C |-> C1_Count(mask, tgt, c, 1, 1)]
        fp == [c \in 1..C |-> C1_Count(mask, tgt, c, 1, 0)]
        fn == [c \in 1..C |-> C1_Count(mask, tgt, c, 0, 1)]
        p == [c \in 1..C |-> C1_Ratio(tp[c], tp[c] + fp[c])]
        r == [c \in 1..C |-> C1_Ratio(tp[c], tp[c] + fn[c])]
        f == [c \in 1..C |-> C1_F1(p[c], r[c])]
        support == [c \in 1..C |-> tp[c] + fn[c]]
        mp == C1_Ratio(ISum(tp), ISum(tp) + ISum(fp))
        mr == C1_Ratio(ISum(tp), ISum(tp) + ISum(fn))
    IN  CASE average = "macro" ->
                <<RDiv(RSum(p), RInt(C)), RDiv(RSum(r), RInt(C)),
                  RDiv(RSum(f), RInt(C)), ISum(support)>>
          [] average = "micro" -> <<mp, mr, C1_F1(mp, mr), ISum(tp) + ISum(fn)>>
          [] OTHER -> <<p, r, f, support>>

\* C1: a call that returns yields, from its decision mask and the target,
\* the per-class tp/fp/fn ratios averaged as the mode says (macro: the means
\* of the per-class values; micro: the ratios of the pooled counts; None:
\* the per-class vectors), in percent; on the docstring example with the
\* default arguments that is (43.75, 31.25, 33.3333, 8).
C1_ConfusionMetrics ==
    Returned =>
        /\ call.value = C1_Expected(call.pos_inds, target, call.average)
        /\ IsDocExample /\ DefaultCall /\ call.average = "macro" =>
               call.value = <<Rat(175, 4), Rat(125, 4), Rat(100, 3), 8>>

\* C1's case: a macro call on the docstring example, where the mean of the
\* per-class F1 (33.33) is not the F1 of the macro precision and recall.
C1_Witness ==
    /\ Returned /\ IsDocExample /\ DefaultCall /\ call.average = "macro"
    /\ call.value[3] # C1_F1(call.value[1], call.value[2])

InPercentRange(x) == RLeq(RZero, x) /\ RLeq(x, Hundred)
IsCount(x) == x \in Nat

\* C2: every precision, recall and F1 a call returns lies in [0, 100] and
\* every support is a non-negative integer, in each averaging mode.
C2_Ranges ==
    Returned =>
        IF call.average = None
        THEN \A c \in 1..NumCols(pred) :
                 /\ \A i \in 1..3 : InPercentRange(call.value[i][c])
                 /\ IsCount(call.value[4][c])
        ELSE /\ \A i \in 1..3 : InPercentRange(call.value[i])
             /\ IsCount(call.value[4])

\* C2's case: a top-k call that returned a precision strictly between 0 and
\* 100 and a positive support.
C2_Witness ==
    /\ Returned /\ call.thr = Nil /\ call.topk # Nil /\ call.average = "micro"
    /\ RLt(RZero, call.value[1]) /\ RLt(call.value[1], Hundred)
    /\ call.value[4] > 0

\* C5: with a threshold the mask cell (n, c) is 1 exactly when the score is
\* at least the threshold and 0 otherwise; with neither threshold nor top-k
\* the call returns what thr = 0.5 returns.
C5_ThresholdMask ==
    Returned =>
        /\ call.thr # Nil =>
               \A n \in 1..NumRows(pred), c \in 1..NumCols(pred) :
                   /\ call.pos_inds[n][c] \in {0, 1}
                   /\ call.pos_inds[n][c] = 1 <=> ~RLt(pred[n][c], call.thr)
        /\ DefaultCall =>
               LET half == calculate(pred, target, call.average, Rat(1, 2), Nil,
                                     [n \in 1..NumRows(pred) |-> <<>>])
               IN  /\ call.pos_inds = half.pos_inds
                   /\ call.value = half.value
                   /\ \A n \in 1..NumRows(pred), c \in 1..NumCols(pred) :
                          call.pos_inds[n][c] = 1 <=> RLeq(Rat(1, 2), pred[n][c])

\* C5's case: a threshold call where one score equals the threshold (and is
\* positive) and another lies below it.
C5_Witness ==
    /\ Returned /\ call.thr = Rat(1, 2) /\ NumCols(pred) >= 2
    /\ pred[1][1] = call.thr /\ call.pos_inds[1][1] = 1
    /\ RLt(pred[1][2], call.thr) /\ call.pos_inds[1][2] = 0

\* C5's default case: a call with neither threshold nor top-k on a score 0.5.
C5_DefaultWitness ==
    Returned /\ DefaultCall /\ pred[1][1] = Rat(1, 2) /\ call.pos_inds[1][1] = 1

\* C6: in top-k mode with 1 <= k <= C the mask is binary, each row has
\* exactly k ones, and in each row no unselected score exceeds a selected one.
C6_TopkMask ==
    Returned /\ call.thr = Nil /\ call.topk # Nil =>
        \A n \in 1..NumRows(pred) :
            /\ \A c \in 1..NumCols(pred) : call.pos_inds[n][c] \in {0, 1}
            /\ ISum(call.pos_inds[n]) = Get(call.topk)
            /\ \A c, d \in 1..NumCols(pred) :
                   call.pos_inds[n][c] = 1 /\ call.pos_inds[n][d] = 0 =>
                       RLeq(pred[n][d], pred[n][c])

\* C6's case: top-1 of two rows; the score selected in the first row (0.5)
\* is the score left unselected in the second, so the selection follows the
\* rank within the row and not the score's absolute value.
C6_Witness ==
    /\ Returned /\ call.thr = Nil /\ call.topk = Some(1)
    /\ pred = << <<Rat(0, 1), Rat(1, 2)>>, <<Rat(1, 1), Rat(1, 2)>> >>
    /\ call.pos_inds = << <<0, 1>>, <<1, 0>> >>

(***************************************************************************)
(* Claims about the MultiLabelMetric instance (specification SpecFacade).  *)
(***************************************************************************)
Computed == out.fn = "MultiLabelMetric.compute_metrics" /\ out.raised = None
NoTies(m) == [n \in 1..NumRows(m) |-> <<>>]

\* calculate(thr = thr, topk = k) and calculate(thr = thr) agree on the
\* matrices the instance has accumulated
C4_StaticPart ==
    Computed =>
        LET P == StackedPred(self)
            T == StackedTarget(self)
        IN  \A thr \in ThrVals \ {Nil}, k \in 1..NumCols(P),
               average \in AverageVals :
                calculate(P, T, average, thr, Some(k), NoTies(P))
                    = calculate(P, T, average, thr, Nil, NoTies(P))

\* an instance built with (thr, topk = k) has returned the mapping one
\* built with thr alone returns from the same results
C4_FacadePart ==
    Computed /\ self.thr # Nil /\ self.topk # Nil =>
        out = compute_metrics(
                  MultiLabelMetric_init(self.thr, Nil, self.average, self.items),
                  self.results, NoTies(self.results))

\* C4: a threshold together with a top-k behaves as the threshold alone, in
\* calculate and in the mapping (keys and values) the instance returns.
C4_ThresholdPrecedence == C4_FacadePart /\ C4_StaticPart

(***************************************************************************)
(* Claims about AveragePrecision.calculate (specification SpecAP).         *)
(***************************************************************************)
APCalled == call.fn = "AveragePrecision.calculate"
APReturned == APCalled /\ call.raised = None

NoPositive(k) == \A n \in 1..NumRows(target) : target[n][k] # 1
AllIgnored(k) == \A n \in 1..NumRows(target) : target[n][k] = -1

\* C7: when a class column holds no target 1 (only 0 and -1, possibly only
\* -1) the call returns and that class's AP is 0.
C7_NoPositiveClassIsZero ==
    APCalled =>
        \A k \in 1..NumCols(target) :
            NoPositive(k) =>
                /\ call.raised = None
                /\ call.average = None => call.value[k] = RZero

\* what the code does for C7's columns that keep at least one sample
C7_SomeKeptIsZero ==
    APCalled =>
        /\ (\A k \in 1..NumCols(target) : ~AllIgnored(k)) =>
               /\ call.raised = None
               /\ call.average = None =>
                      \A k \in 1..NumCols(target) :
                          NoPositive(k) => call.value[k] = RZero
        /\ (\E k \in 1..NumCols(target) : AllIgnored(k)) =>
               call.raised = "IndexError"

\* the rows of class k that are not ignored, in order
C8_Kept(k) ==
    SelectSeq([n \in 1..NumRows(target) |-> n],
              LAMBDA n : target[n][k] # -1)

\* the row at each rank of class k, by the order the call sorted into
C8_Ranked(k) ==
    [i \in 1..Len(call.sorted_pred_inds[k]) |->
        C8_Kept(k)[call.sorted_pred_inds[k][i]]]

C8_PositivesUpTo(k, i) ==
    Cardinality({j \in 1..i : target[C8_Ranked(k)[j]][k] = 1})

C8_ClassAP(k) ==
    LET ranked == C8_Ranked(k)
        total == C8_PositivesUpTo(k, Len(ranked))
        hits == {i \in 1..Len(ranked) : target[ranked[i]][k] = 1}
        terms == [i \in 1..Len(ranked) |->
                     IF i \in hits THEN Rat(C8_PositivesUpTo(k, i), i)
                     ELSE RZero]
    IN  IF total = 0 THEN RZero ELSE RDiv(RSum(terms), RInt(total))

\* C8: a call that returns has, for each class, ranked exactly the samples
\* whose target for that class is not -1, by score descending, and the
\* class's AP is the sum over the ranks i holding a positive of (positives
\* among ranks 1..i) / i, divided by the number of positives (0 without
\* positives); macro returns 100 times the mean over the classes, None the
\* vector times 100; the docstring example gives 70.8333 (425/6).
C8_AveragePrecision ==
    APReturned =>
        /\ \A k \in 1..NumCols(pred) :
               LET ranked == C8_Ranked(k)
               IN  /\ Len(call.sorted_pred_inds[k]) = Len(C8_Kept(k))
                   /\ \A i \in 1..Len(C8_Kept(k)) :
                          call.sorted_pred_inds[k][i] \in 1..Len(C8_Kept(k))
                   /\ {ranked[i] : i \in 1..Len(ranked)}
                          = {n \in 1..NumRows(target) : target[n][k] # -1}
                   /\ \A i \in 1..(Len(ranked) - 1) :
                          RLeq(pred[ranked[i + 1]][k], pred[ranked[i]][k])
        /\ call.average = None =>
               \A k \in 1..NumCols(pred) :
                   call.value[k] = RMul(Hundred, C8_ClassAP(k))
        /\ call.average = "macro" =>
               call.value = RMul(Hundred,
                   RDiv(RSum([k \in 1..NumCols(pred) |-> C8_ClassAP(k)]),
                        RInt(NumCols(pred))))
        /\ pred = DocAPPred /\ target = DocAPTarget /\ call.average = "macro"
               => call.value = Rat(425, 6)

\* C8's case: the first sample is ignored for class 1, where it has the
\* best score, and is the only positive of class 2, where it counts: class
\* 1's AP is that of its second sample alone (100), and class 2's is 100.
C8_Witness ==
    /\ APReturned /\ call.average = None
    /\ Shape(pred) = <<2, 2>>
    /\ target = << <<-1, 1>>, <<1, 0>> >>
    /\ pred = << <<ROne, ROne>>, <<RZero, RZero>> >>
    /\ call.value = <<Hundred, Hundred>>

\* C8's ranking case: three samples of one class, none ignored, the
\* positives at ranks 1 and 3: AP = (1/1 + 2/3) / 2, that is 83.33.
C8_RankWitness ==
    /\ APReturned /\ call.average = "macro"
    /\ Column(target, 1) = <<1, 1, 0>>
    /\ Column(pred, 1) = <<RZero, ROne, Rat(1, 2)>>
    /\ call.value = Rat(250, 3)

(***************************************************************************)
(* Claims about RetrievalAveragePrecision.calculate (specification         *)
(* SpecRetrieval).                                                         *)
(***************************************************************************)
RetCalled == call.fn = "RetrievalAveragePrecision.calculate"
RetReturned == RetCalled /\ call.raised = None

NoRepeatedId(ranked) ==
    \A i, j \in 1..Len(ranked) : ranked[i] = ranked[j] => i = j

\* C3 as worded: with at least one target id and max_predictions >= 1 the
\* call returns, under both options and for every ranked id list, a
\* percentage in [0, 100].  A list that repeats a target id breaks the upper
\* bound: [0, 0] against target [0] with max_predictions 2 gives 200.
C3_AsStated ==
    RetCalled /\ target # {} /\ call.max_predictions >= 1 =>
        /\ call.raised = None
        /\ InPercentRange(call.value)

\* C3, amended: with at least one target id and max_predictions >= 1 the
\* call returns under both options, and on a ranked id list in which no id
\* occurs twice the result is a percentage in [0, 100].
C3_RetrievalRange ==
    RetCalled /\ target # {} /\ call.max_predictions >= 1 =>
        /\ call.raised = None
        /\ RLeq(RZero, call.value)
        /\ NoRepeatedId(pred) => RLeq(call.value, Hundred)

\* C3's case: a ranking without repeated ids, longer than max_predictions,
\* with hits on both sides of the cut and as many target ids as
\* max_predictions: the result is 100.
C3_Witness ==
    /\ RetReturned /\ call.option = "standard"
    /\ NoRepeatedId(pred)
    /\ pred = <<0, 1, 2>> /\ target = {0, 1, 2} /\ call.max_predictions = 2
    /\ call.value = Hundred

\* C3's excluded case: the one target id ranked twice scores 200 under
\* 'standard' and 150 under 'average'.
C3_RepeatedIdWitness ==
    /\ RetReturned /\ pred = <<0, 0>> /\ target = {0}
    /\ call.max_predictions = 2
    /\ call.value = IF call.option = "standard" THEN RInt(200) ELSE RInt(150)
    /\ ~InPercentRange(call.value)

\* The claim's sum, written from its text over the set of hit positions.
C10_Head == SubSeq(pred, 1, Min(call.max_predictions, Len(pred)))
C10_Hits == {rank \in 0..(Len(C10_Head) - 1) : C10_Head[rank + 1] \in target}
C10_Occurrence(rank) == Cardinality({h \in C10_Hits : h < rank})
C10_Term(rank) ==
    LET i == C10_Occurrence(rank)
    IN  IF call.option = "standard"
        THEN Rat(i + 1, rank + 1)
        ELSE RDiv(RAdd(IF rank > 0 THEN Rat(i, rank) ELSE ROne,
                       Rat(i + 1, rank + 1)), RInt(2))
RECURSIVE C10_SumOver(_)
C10_SumOver(ranks) ==
    IF ranks = {} THEN RZero
    ELSE LET rank == CHOOSE r \in ranks : TRUE
         IN  RAdd(C10_Term(rank), C10_SumOver(ranks \ {rank}))
SamePrefix(a, b, k) ==
    SubSeq(a, 1, Min(k, Len(a))) = SubSeq(b, 1, Min(k, Len(b)))

\* C10: a call that returns gives 100 times the sum, over the hits among the
\* first max_predictions entries, of the option's term for the hit's
\* position and occurrence index, divided by min(number of target ids,
\* max_predictions); a ranking that agrees on the first max_predictions
\* entries gives the same result.
C10_RetrievalFormula ==
    RetReturned =>
        /\ call.value =
               RMul(Hundred,
                    RDiv(C10_SumOver(C10_Hits),
                         RInt(Min(Cardinality(target), call.max_predictions))))
        /\ \A other \in RankedLists :
               SamePrefix(other, pred, call.max_predictions) =>
                   retrieval_calculate(other, target, call.max_predictions,
                                       call.option).value = call.value

\* C10's case: option 'average' on a ranking cut after two of its three
\* entries, with hits at positions 0 and 1 and a third target id behind the
\* cut: ((1 + 1) / 2 + (1 / 1 + 2 / 2) / 2) / min(3, 2) = 100.
C10_Witness ==
    /\ RetReturned /\ call.option = "average" /\ call.max_predictions = 2
    /\ pred = <<1, 2, 0>> /\ target = {0, 1, 2}
    /\ call.value = Hundred

\* C10's second case: a hit at position 2 only, under 'average':
\* ((0 / 2 + 1 / 3) / 2) / 1, that is 16.67.
C10_AverageWitness ==
    /\ RetReturned /\ call.option = "average" /\ call.max_predictions = 3
    /\ pred = <<1, 2, 0>> /\ target = {0}
    /\ call.value = Rat(50, 3)

IsDocCall ==
    /\ RetReturned /\ pred = DocIndex
    /\ call.max_predictions = DefaultMaxPredictions
    /\ call.option = "standard"

\* |x - 16.746032| <= 0.000001, which holds of 16.746031746031745
C9_Close(x) == Abs(x[1] * 1000000 - 16746032 * x[2]) <= x[2]

\* C9 as stated: on the ids 0..99 with the relevant ids {0, 3, 6, 8, 35},
\* k = 100 and option 'standard' the result is 16.746031746031745.
C9_AsStated == IsDocCall /\ target = DocRelevant => C9_Close(call.value)

\* C9 amended: on the ids 0..99 with the fifteen target ids of the
\* docstring (0, 3, 6, 8, 35, 101..105, 201..205), k = 100 and option
\* 'standard' the result is 16.746031746031745 (1055/63).
C9_DocExample ==
    IsDocCall /\ target = DocLabel =>
        call.value = Rat(1055, 63) /\ C9_Close(call.value)

C9_Witness == IsDocCall /\ target = DocLabel /\ RLt(RZero, call.value)

(***************************************************************************)
(* Relations between calls of MultiLabelMetric.calculate (Spec).           *)
(***************************************************************************)
\* the column order, the only order a row of one class can be sorted into
IdentityTies(p) == [n \in 1..NumRows(p) |-> [c \in 1..NumCols(p) |-> c]]

\* the same call with another averaging mode
C11_With(average) ==
    calculate(pred, target, average, call.thr, call.topk,
              IdentityTies(pred)).value

\* C11: with exactly one class the macro precision, recall and F1 are the
\* class's own values (average None), and the micro values equal the macro
\* values, under every decision rule.
C11_SingleClass ==
    Returned /\ NumCols(pred) = 1 =>
        LET macro == C11_With("macro")
            micro == C11_With("micro")
            none == C11_With(None)
        IN  /\ \A i \in 1..3 : macro[i] = none[i][1] /\ micro[i] = macro[i]
            /\ call.value \in {macro, micro, none}

\* C11's case: one class, two samples, one true and one false positive:
\* precision 50, recall 100, F1 66.67 in the call that returned (micro).
C11_Witness ==
    /\ Returned /\ NumCols(pred) = 1 /\ call.average = "micro"
    /\ target = << <<1>>, <<0>> >>
    /\ call.pos_inds = << <<1>>, <<1>> >>
    /\ call.value = <<Rat(50, 1), Hundred, Rat(200, 3), 1>>

(***************************************************************************)
(* The keys of the mapping MultiLabelMetric.compute_metrics returns        *)
(* (SpecFacade).                                                           *)
(***************************************************************************)
\* the decision suffix as the claim words it, for the thresholds of ThrVals
C12_DecisionSuffix ==
    IF self.thr = Nil THEN "_top" \o ToString(Get(self.topk))
    ELSE IF self.thr = Rat(1, 2) THEN ""
    ELSE IF self.thr = RZero THEN "_thr-0.00"
    ELSE "_thr-1.00"

C12_AverageSuffix ==
    IF self.average = None THEN "_classwise"
    ELSE IF self.average = "micro" THEN "_micro"
    ELSE ""

C12_Items == {self.items[i] : i \in 1..Len(self.items)}

C12_KeysAsWorded ==
    /\ DOMAIN out.value =
           {item \o C12_DecisionSuffix \o C12_AverageSuffix :
               item \in C12_Items}
    /\ self.average = None =>
           \A key \in DOMAIN out.value :
               Len(out.value[key]) = NumCols(StackedPred(self))

\* C12: the mapping's keys are the configured items, each followed by
\* '_thr-{value}' for a threshold other than 0.5 (0 included), by nothing
\* for 0.5 and by '_top{k}' in top-k mode, then by '_classwise' (with a
\* per-class list as value), '_micro' or nothing for average None, 'micro',
\* 'macro'.
C12_Keys == Computed => C12_KeysAsWorded

\* the same for every instance whose threshold is not 0
C12_KeysUnlessZero == Computed /\ self.thr # RZero => C12_KeysAsWorded

\* an instance with thr = 0 and no top-k that has returned its mapping
C12_ZeroThrComputed ==
    /\ Computed /\ self.thr = RZero /\ self.topk = Nil
    /\ "recall_topNone" \in DOMAIN out.value

(***************************************************************************)
(* The three metric classes as instances: __init__, process and            *)
(* compute_metrics of AveragePrecision and RetrievalAveragePrecision, next  *)
(* to those of MultiLabelMetric above.                                     *)
(***************************************************************************)
AveragePrecision_init(average) ==
    [cls |-> "AveragePrecision", average |-> average, results |-> <<>>]

\* AveragePrecision.process: the same record as MultiLabelMetric.process
AveragePrecision_process(obj, data_samples) ==
    [obj EXCEPT !.results =
        @ \o [i \in 1..Len(data_samples) |-> process_result(data_samples[i])]]

\* torch.stack([res[field] for res in results])
Stack(results, field) == [i \in 1..Len(results) |-> results[i][field]]

AveragePrecision_compute_metrics(obj, results, ties) ==
    LET fn == "AveragePrecision.compute_metrics"
    IN  IF results = <<>>
        THEN Raise(fn, "RuntimeError")
        ELSE
        LET ap == AP_calculate(Stack(results, "pred_score"),
                               Stack(results, "gt_score"), obj.average, ties)
        IN  IF ap.raised # None
            THEN Raise(fn, ap.raised)
            ELSE [fn |-> fn, raised |-> None,
                  value |-> IF obj.average = None
                            THEN [k \in {"AP_classwise"} |-> ap.value]
                            ELSE [k \in {"mAP"} |-> ap.value]]

RetrievalAveragePrecision_init(max_predictions, option) ==
    [cls |-> "RetrievalAveragePrecision", max_predictions |-> max_predictions,
     option |-> option, results |-> <<>>]

RetrievalAveragePrecision_process(obj, predictions) ==
    [obj EXCEPT !.results =
        @ \o [i \in 1..Len(predictions) |->
                 [pred_label |-> predictions[i].pred_label,
                  gt_label |-> predictions[i].gt_label,
                  pred_score |-> predictions[i].pred_label.score]]]

\* np.mean of an empty list: nan (0/0)
NaN == <<0, 0>>

\* the loop runs over self.results (obj.results); `results` is not read
RetrievalAveragePrecision_compute_metrics(obj, results) ==
    LET fn == "RetrievalAveragePrecision.compute_metrics"
        ap_list == [i \in 1..Len(obj.results) |->
                       retrieval_calculate(obj.results[i].pred_label.label,
                                           obj.results[i].gt_label.label,
                                           obj.max_predictions, obj.option)]
    IN  IF FirstRaised(ap_list) # None
        THEN Raise(fn, FirstRaised(ap_list))
        ELSE [fn |-> fn, raised |-> None,
              value |-> [k \in {"mAP@" \o ToString(obj.max_predictions)} |->
                            IF ap_list = <<>> THEN NaN
                            ELSE RMean([i \in 1..Len(ap_list) |->
                                           ap_list[i].value])]]

\* obj.process(data_batch, data_samples)
facade_process(obj, data_samples) ==
    CASE obj.cls = "MultiLabelMetric" -> process(obj, data_samples)
      [] obj.cls = "AveragePrecision" ->
             AveragePrecision_process(obj, data_samples)
      [] obj.cls = "RetrievalAveragePrecision" ->
             RetrievalAveragePrecision_process(obj, data_samples)

\* obj.compute_metrics(results)
facade_compute_metrics(obj, results, ties) ==
    CASE obj.cls = "MultiLabelMetric" -> compute_metrics(obj, results, ties)
      [] obj.cls = "AveragePrecision" ->
             AveragePrecision_compute_metrics(obj, results, ties)
      [] obj.cls = "RetrievalAveragePrecision" ->
             RetrievalAveragePrecision_compute_metrics(obj, results)

\* results_after_compute emptying the buffer: self.results.clear()
results_cleared_by_compute(obj) == <<>>

\* self.results once compute_metrics has returned or raised: none of the
\* three methods appends to it, removes from it or writes into a stored
\* tensor
results_after_compute(obj) == obj.results

(***************************************************************************)
(* Specification SpecFacades: an instance of one of the three classes is   *)
(* fed samples, then compute_metrics is called on a list of results (its   *)
(* own buffer, or a part of it as another collection would hand over),     *)
(* and called once more on the same list.                                  *)
(***************************************************************************)
\* A data sample for AveragePrecision: targets may be -1 (ignored).
APDataSamples(c) ==
    {[pred_label |-> [score |-> ps], gt_label |-> gt] :
        ps \in [1..c -> ScoreVals],
        gt \in {[score |-> g] : g \in [1..c -> {-1, 0, 1}]}}

\* A prediction for RetrievalAveragePrecision: a ranking of two gallery
\* images or fewer, and the target ids among them.
RetrievalSamples ==
    {[pred_label |-> [label |-> r, score |-> <<>>], gt_label |-> [label |-> g]] :
        r \in {l \in RankedLists : Len(l) <= 2 /\ \A i \in 1..Len(l) : l[i] <= 1},
        g \in SUBSET {0, 1}}

FacadeConfigs ==
    {MultiLabelMetric_init(thr, topk, average, <<"precision", "support">>) :
        thr \in {Nil, Rat(1, 2)}, topk \in FacadeTopkVals,
        average \in AverageVals}
    \cup {AveragePrecision_init(average) : average \in APAverageVals}
    \cup {RetrievalAveragePrecision_init(k, option) :
             k \in {1, DefaultMaxPredictions}, option \in OptionVals}

\* the samples process may be handed next: all of one width, and within
\* the size the model covers
NextSamples(obj) ==
    IF obj.cls = "RetrievalAveragePrecision" THEN RetrievalSamples
    ELSE UNION {IF obj.cls = "MultiLabelMetric" THEN DataSamples(c)
                ELSE APDataSamples(c) :
                   c \in {w \in 1..MaxClasses :
                             /\ (Len(obj.results) + 1) * w <= MaxCells
                             /\ obj.results # <<>> =>
                                    w = Len(obj.results[1].pred_score)}}

\* the lists compute_metrics may be handed: the buffer, or a part of it
ResultsArgs(obj) ==
    {SubSeq(obj.results, 1, n) : n \in 0..Len(obj.results)}
        \cup {SubSeq(obj.results, 2, Len(obj.results))}

\* the orders the sorts inside compute_metrics can take for `results`
FacadeTieVals(obj, results) ==
    IF results = <<>> \/ obj.cls = "RetrievalAveragePrecision" THEN {<<>>}
    ELSE IF obj.cls = "MultiLabelMetric"
    THEN TieVals(Stack(results, "pred_score"), obj.thr, obj.topk)
    ELSE APTieVals(Stack(results, "pred_score"), Stack(results, "gt_score"),
                   Len(results[1].pred_score))

FacadesInit ==
    /\ pred = Nil
    /\ target = Nil
    /\ call = NoCall
    /\ self \in FacadeConfigs
    /\ out = NoCall

FacadesProcess(data_samples) ==
    /\ self' = facade_process(self, data_samples)
    /\ call' = NoCall
    /\ out' = NoCall
    /\ UNCHANGED <<pred, target>>

\* compute_metrics(results); `call` keeps the argument, the buffer as it
\* was at the call and what the call before it returned
FacadesCompute(results, ties) ==
    /\ call' = [fn |-> "compute_metrics", results |-> results, ties |-> ties,
                before |-> self.results, previous |-> NoCall]
    /\ out' = facade_compute_metrics(self, results, ties)
    /\ self' = [self EXCEPT !.results = results_after_compute(self)]
    /\ UNCHANGED <<pred, target>>

\* compute_metrics once more on the same list, with no process in between;
\* the sorts order equal scores as they did in the first call
FacadesComputeAgain ==
    /\ call' = [call EXCEPT !.before = self.results, !.previous = out]
    /\ out' = facade_compute_metrics(self, call.results, call.ties)
    /\ self' = [self EXCEPT !.results = results_after_compute(self)]
    /\ UNCHANGED <<pred, target>>

FacadesNext ==
    \/ /\ Len(self.results) < MaxResults
       /\ \E data_sample \in NextSamples(self) : FacadesProcess(<<data_sample>>)
    \/ /\ call = NoCall
       /\ \E results \in ResultsArgs(self) :
              \E ties \in FacadeTieVals(self, results) :
                  FacadesCompute(results, ties)
    \/ /\ call # NoCall
       /\ call.previous = NoCall
       /\ FacadesComputeAgain

SpecFacades == FacadesInit /\ [][FacadesNext]_vars

(***************************************************************************)
(* Claims about the three instances (specification SpecFacades).           *)
(***************************************************************************)
ComputeCalled == call # NoCall
ComputedTwice == ComputeCalled /\ call.previous # NoCall

C13_WitnessMultiLabel ==
    /\ ComputedTwice /\ self.cls = "MultiLabelMetric" /\ self.thr = Nil
    /\ Len(self.results) = 2 /\ out.raised = None

C13_WitnessAP ==
    /\ ComputedTwice /\ self.cls = "AveragePrecision"
    /\ Len(self.results) = 2 /\ out.raised = None
    /\ self.average = "macro" /\ RLt(RZero, out.value["mAP"])

\* the instance with another buffer
WithBuffer(obj, buffer) == [obj EXCEPT !.results = buffer]

\* what compute_metrics(call.results) returns on an instance of the same
\* configuration whose buffer is `buffer`
C15_From(buffer) ==
    facade_compute_metrics(WithBuffer(self, buffer), call.results, call.ties)

C15_Buffers == {<<>>, call.results, self.results}

\* C15: for each of the three classes, what compute_metrics(results)
\* returns is fixed by `results` and the configuration: an instance of the
\* same configuration with another buffer returns the same mapping.
C15_ResultsArgumentDecides ==
    ComputeCalled => \A buffer \in C15_Buffers : C15_From(buffer) = out

\* the same for MultiLabelMetric and AveragePrecision alone
C15_StackingClasses ==
    ComputeCalled /\ self.cls # "RetrievalAveragePrecision" =>
        \A buffer \in C15_Buffers : C15_From(buffer) = out

\* a RetrievalAveragePrecision instance with one query in its buffer,
\* handed an empty list, has returned its own query's value
C15_RetrievalReadsBuffer ==
    /\ ComputeCalled /\ self.cls = "RetrievalAveragePrecision"
    /\ Len(self.results) = 1 /\ call.results = <<>>
    /\ out.raised = None /\ C15_From(<<>>) # out

(***************************************************************************)
(* MultiLabelMetric.calculate with all its arguments: labels as tensors,   *)
(* arrays or sequences (of one-hot rows or of index lists), and            *)
(* num_classes.                                                            *)
(***************************************************************************)
\* torch.stack of rows: all rows must have one length
StackRows(rows) ==
    IF rows = <<>> \/ \E i \in 1..Len(rows) : Len(rows[i]) # Len(rows[1])
    THEN Raise("torch.stack", "RuntimeError")
    ELSE [raised |-> None, value |-> rows]

\* _format_label(label, is_indices), num_classes being the argument of the
\* enclosing call
format_label(label, is_indices, num_classes) ==
    IF label.type \in {"ndarray", "Tensor"}
    THEN IF label.ndim # 2 THEN Raise("_format_label", "AssertionError")
         ELSE [raised |-> None, value |-> label.data]
    ELSE IF label.type = "Sequence"
    THEN IF is_indices
         THEN IF num_classes = Nil
              THEN Raise("_format_label", "AssertionError")
              ELSE IF \E i \in 1..Len(label.data) :
                         \E q \in 1..Len(label.data[i]) :
                             label.data[i][q] >= Get(num_classes)
              THEN Raise("label_to_onehot", "AssertionError")
              ELSE StackRows([i \in 1..Len(label.data) |->
                      label_to_onehot({label.data[i][q] :
                                          q \in 1..Len(label.data[i])},
                                      Get(num_classes))])
         ELSE StackRows(label.data)
    ELSE Raise("_format_label", "TypeError")

\* the scores of a formatted prediction as fractions
AsScores(m) == [n \in 1..Len(m) |-> [c \in 1..Len(m[n]) |-> RInt(m[n][c])]]

\* calculate_labels without the comparison of pred.size(1) with num_classes
calculate_labels_unchecked(p, t, pred_indices, target_indices, average, thr, topk, num_classes, ties) ==
    LET fn == "MultiLabelMetric.calculate"
        fp == format_label(p, pred_indices, num_classes)
        ft == format_label(t, target_indices, num_classes)
    IN  IF average \notin {"micro", "macro", None}
        THEN Raise(fn, "AssertionError")
        ELSE IF fp.raised # None THEN Raise(fn, fp.raised)
        ELSE IF ft.raised # None THEN Raise(fn, ft.raised)
        ELSE calculate(AsScores(fp.value), ft.value, average, thr, topk, ties)

\* MultiLabelMetric.calculate(pred, target, pred_indices, target_indices,
\* average, thr, topk, num_classes)
calculate_labels(p, t, pred_indices, target_indices, average, thr, topk, num_classes, ties) ==
    LET fn == "MultiLabelMetric.calculate"
        fp == format_label(p, pred_indices, num_classes)
        ft == format_label(t, target_indices, num_classes)
    IN  IF average \notin {"micro", "macro", None}
        THEN Raise(fn, "AssertionError")
        ELSE IF fp.raised # None THEN Raise(fn, fp.raised)
        ELSE IF ft.raised # None THEN Raise(fn, ft.raised)
        ELSE IF Shape(fp.value) # Shape(ft.value)
        THEN Raise(fn, "AssertionError")
        ELSE IF num_classes # Nil /\ NumCols(fp.value) # Get(num_classes)
        THEN Raise(fn, "AssertionError")
        ELSE calculate(AsScores(fp.value), ft.value, average, thr, topk, ties)

(***************************************************************************)
(* Specification SpecLabels: one call of MultiLabelMetric.calculate on     *)
(* labels in each accepted form, with each flag and num_classes.           *)
(***************************************************************************)
LabelRows(c) == [1..c -> {0, 1}]

\* a 2-D tensor, a 1-D tensor, or a sequence of one or two rows of one or
\* two entries (read as one-hot rows, or as index lists under is_indices)
LabelInputs ==
    {[type |-> "Tensor", ndim |-> 2, data |-> m] :
        m \in UNION {[1..n -> LabelRows(c)] : n \in 1..2, c \in 1..2}}
    \cup {[type |-> "Tensor", ndim |-> 1, data |-> <<0, 1>>]}
    \cup {[type |-> "Sequence", data |-> rows] :
             rows \in UNION {[1..n -> LabelRows(1) \cup LabelRows(2)] :
                                n \in 1..2}}

NumClassesVals == {Nil, Some(1), Some(2)}
AverageArgs == AverageVals \cup {"weighted"}

LabelsInit ==
    /\ pred \in LabelInputs
    /\ target \in LabelInputs
    /\ call = NoCall
    /\ self = NoSelf
    /\ out = NoCall

LabelsCalculate(pred_indices, target_indices, average, num_classes) ==
    /\ call' = calculate_labels(pred, target, pred_indices, target_indices,
                                average, Nil, Nil, num_classes, <<>>)
                   @@ [pred_indices |-> pred_indices,
                       target_indices |-> target_indices,
                       average |-> average, num_classes |-> num_classes]
    /\ UNCHANGED <<pred, target, self, out>>

LabelsNext ==
    /\ call = NoCall
    /\ \E pred_indices, target_indices \in BOOLEAN,
          average \in AverageArgs, num_classes \in NumClassesVals :
           LabelsCalculate(pred_indices, target_indices, average, num_classes)

SpecLabels == LabelsInit /\ [][LabelsNext]_vars

(***************************************************************************)
(* Claims about the input checks of MultiLabelMetric.calculate             *)
(* (specification SpecLabels).                                             *)
(***************************************************************************)
LabelsCalled == call.fn = "MultiLabelMetric.calculate"
Failed == LabelsCalled /\ call.raised # None

IndexSequence(label, is_indices) == label.type = "Sequence" /\ is_indices

\* the shape of the matrix a label is normalized to, Nil when there is none
C14_Shape(label, is_indices) ==
    IF label.type = "Tensor"
    THEN IF label.ndim = 2
         THEN <<Len(label.data), Len(label.data[1])>> ELSE Nil
    ELSE IF is_indices
    THEN IF call.num_classes = Nil THEN Nil
         ELSE <<Len(label.data), Get(call.num_classes)>>
    ELSE IF \A i \in 1..Len(label.data) :
                Len(label.data[i]) = Len(label.data[1])
    THEN <<Len(label.data), Len(label.data[1])>> ELSE Nil

C14_PredShape == C14_Shape(pred, call.pred_indices)
C14_TargetShape == C14_Shape(target, call.target_indices)

\* C14: the call fails when average is not 'macro', 'micro' or None, when a
\* sequence of index lists comes without num_classes, when the normalized
\* matrices differ in shape, and when num_classes differs from the width;
\* a call that returns has passed all four checks and returns the tuple of
\* four.
C14_InputChecks ==
    LabelsCalled =>
        /\ call.average \notin {"macro", "micro", None} => Failed
        /\ /\ call.num_classes = Nil
           /\ \/ IndexSequence(pred, call.pred_indices)
              \/ IndexSequence(target, call.target_indices)
           => Failed
        /\ /\ C14_PredShape # Nil /\ C14_TargetShape # Nil
           /\ C14_PredShape # C14_TargetShape
           => Failed
        /\ /\ call.num_classes # Nil /\ C14_PredShape # Nil
           /\ C14_PredShape[2] # Get(call.num_classes)
           => Failed
        /\ ~Failed => Len(call.value) = 4

\* C14's case: two tensors of one shape (1, 2) and a valid average, with
\* num_classes = 1: the call raises AssertionError.
C14_Witness ==
    /\ Failed /\ call.raised = "AssertionError"
    /\ call.average = "macro" /\ call.num_classes = Some(1)
    /\ pred.type = "Tensor" /\ target = pred
    /\ C14_PredShape = <<1, 2>>

\* C14's other case: index lists with num_classes = 2 against a tensor of
\* width 2: the call returns.
C14_ReturnWitness ==
    /\ LabelsCalled /\ ~Failed /\ call.num_classes = Some(2)
    /\ call.average = "macro"
    /\ IndexSequence(target, call.target_indices) /\ pred.type = "Tensor"
    /\ RLt(RZero, call.value[2])

(***************************************************************************)
(* The two options of RetrievalAveragePrecision.calculate compared         *)
(* (specification SpecRetrieval).                                          *)
(***************************************************************************)
C16_Value(option) ==
    retrieval_calculate(pred, target, call.max_predictions, option).value

\* left and right precision of the hit at position rank, as the claim
\* words them
C16_Left(rank) ==
    IF rank > 0 THEN Rat(C10_Occurrence(rank), rank) ELSE ROne
C16_Right(rank) == Rat(C10_Occurrence(rank) + 1, rank + 1)

\* C16: with at least one target id and max_predictions >= 1, option
\* 'average' returns at most what option 'standard' returns on the same
\* inputs, and the same when each hit's left precision equals its right
\* precision.
C16_AverageAtMostStandard ==
    RetReturned =>
        /\ RLeq(C16_Value("average"), C16_Value("standard"))
        /\ (\A rank \in C10_Hits : C16_Left(rank) = C16_Right(rank))
               => C16_Value("average") = C16_Value("standard")
        /\ call.value = C16_Value(call.option)

\* C16's case: one hit, at position 1: 'average' has returned (0 + 1/2) / 2,
\* that is 25, where 'standard' returns 50.
C16_Witness ==
    /\ RetReturned /\ call.option = "average"
    /\ pred = <<1, 0>> /\ target = {0} /\ call.max_predictions = 2
    /\ call.value = Rat(25, 1) /\ C16_Value("standard") = Rat(50, 1)

\* C16's case of equality: the hits are the first two entries of the list.
C16_PrefixWitness ==
    /\ RetReturned /\ call.option = "average"
    /\ pred = <<0, 1, 2>> /\ target = {0, 1} /\ call.max_predictions = 3
    /\ call.value = Hundred /\ C16_Value("standard") = Hundred

(***************************************************************************)
(* Threshold mode compared across thresholds (specification Spec).         *)
(***************************************************************************)
\* the per-class call with threshold thr on the inputs of the state
C17_At(thr) ==
    calculate(pred, target, None, thr, Nil, IdentityTies(pred))

C17_TruePositives(res, c) == C1_Count(res.pos_inds, target, c, 1, 1)

\* C17: for thresholds t1 <= t2 every cell positive under t2 is positive
\* under t1, and for every class the true-positive count and the recall
\* under t2 are at most those under t1, the support being the same.
C17_ThresholdMonotone ==
    Returned /\ call.thr # Nil /\ call.average = None =>
        \A t2 \in ThrVals \ {Nil} :
            RLeq(call.thr, t2) =>
                LET low == C17_At(call.thr)
                    high == C17_At(t2)
                IN  /\ low.pos_inds = call.pos_inds
                    /\ \A n \in 1..NumRows(pred), c \in 1..NumCols(pred) :
                           high.pos_inds[n][c] <= low.pos_inds[n][c]
                    /\ \A c \in 1..NumCols(pred) :
                           /\ C17_TruePositives(high, c)
                                  <= C17_TruePositives(low, c)
                           /\ RLeq(high.value[2][c], low.value[2][c])
                           /\ high.value[4][c] = low.value[4][c]

\* C17's case: a class with two positives scored 0.5 and 1: at threshold
\* 0.5 both are found (recall 100), at threshold 1 only one (recall 50).
C17_Witness ==
    /\ Returned /\ call.thr = Rat(1, 2) /\ call.average = None
    /\ Column(pred, 1) = <<Rat(1, 2), ROne>> /\ Column(target, 1) = <<1, 1>>
    /\ call.value[2][1] = Hundred
    /\ C17_At(ROne).value[2][1] = Rat(50, 1)
    /\ C17_At(ROne).value[4][1] = 2

====
